---- MODULE Spec2Model ----
(***************************************************************************)
(* Model of src/dbcontext.py: the DBContext context manager around one    *)
(* mysql.connector connection, its select / insert handlers and the       *)
(* static export_csv helper.                                              *)
(*                                                                        *)
(* Every handler is one action.  What a handler does with the driver is   *)
(* computed by a pure operator (select, insert, export_csv) that returns  *)
(* the outcome of the call together with the ordered list of driver calls *)
(* the handler made; the action applies that result to the state.         *)
(* The driver's answers (does execute raise, which rows, which rowcount)  *)
(* are inputs of the call, chosen with \E.                                *)
(***************************************************************************)
EXTENDS Integers, Sequences, FiniteSets

VARIABLES
    con,          \* self._con: "unset" (attribute never assigned), "open", "closed"
    pc,           \* position of the caller's with-statement: "out", "body", "exit"
    exc,          \* TRUE when the with-body was left by an exception
    opens,        \* successful mysql.connector.connect calls
    closes,       \* self._con.close() calls
    scopes,       \* with-statements started (successful or not)
    calls,        \* handler calls made so far
    cursorsOpen,  \* cursors obtained and never closed
    commits,      \* self._con.commit() calls
    pending,      \* row changes applied in the open transaction
    committed,    \* row changes made durable by a commit
    files,        \* the file system: the paths written
    last          \* the record of the last handler call

vars == <<con, pc, exc, opens, closes, scopes, calls, cursorsOpen, commits,
          pending, committed, files, last>>

----------------------------------------------------------------------------
(* Bounds *)

MaxSteps == 3
MaxRows == 2
MaxAffected == 1

----------------------------------------------------------------------------
(* Python values *)

None == "None"

\* query arguments: None, the empty string, a statement
Queries == {None, "", "SQL"}

Rows == {"r1", "r2"}

RECURSIVE SeqsUpTo(_, _)
SeqsUpTo(S, n) ==
    IF n = 0 THEN {<<>>}
    ELSE LET shorter == SeqsUpTo(S, n - 1)
         IN  shorter \cup {Append(s, x) : s \in {t \in shorter : Len(t) = n - 1}, x \in S}

\* a Python object: its type and, for a container, its items
PyNone == [type |-> "NoneType", items |-> <<>>]
PyList(items) == [type |-> "list", items |-> items]
Lists == {PyList(s) : s \in SeqsUpTo(Rows, MaxRows)}
NonLists == {[type |-> "tuple", items |-> <<>>],
             [type |-> "tuple", items |-> <<"r1">>],
             [type |-> "str", items |-> <<>>]}
Objects == {PyNone} \cup Lists \cup NonLists

\* isinstance(v, list)
isinstance_list(v) == v.type = "list"

\* v is None
is_none(v) == v.type = "NoneType"

\* v == []  (only an empty list compares equal to [])
eq_empty_list(v) == v.type = "list" /\ v.items = <<>>

\* file names, as sequences of characters
CsvSuffix == <<".", "c", "s", "v">>
FileNames == {<<"t">>, <<"t">> \o CsvSuffix}

\* str.endswith
endswith(s, suf) ==
    /\ Len(s) >= Len(suf)
    /\ SubSeq(s, Len(s) - Len(suf) + 1, Len(s)) = suf

----------------------------------------------------------------------------
(* The driver's answers to one handler call *)

\* fail: execute / executemany raises; rows: the result set of the
\* statement; rc: the rows the statement affects (cursor.rowcount)
SelectAnswers == [fail : BOOLEAN, rows : SeqsUpTo(Rows, 1)]
InsertAnswers == [fail : BOOLEAN, rc : 0 .. MaxAffected]

\* the driver answers only a handler that reaches it, and whether an
\* exception is caught matters only for a call that raises in a with-body
Answers(reached, S) == IF reached THEN S ELSE {CHOOSE d \in S : TRUE}
Catches(res) ==
    IF res.outcome # "ok" /\ pc = "body" THEN BOOLEAN ELSE {FALSE}

Min(a, b) == IF a < b THEN a ELSE b

----------------------------------------------------------------------------
(* Results of a handler call *)

\* the handler call ended as `outcome` having made the driver calls `cs`
Result(outcome, cs, opened, closed, commit, applied, rowcount, rows, batch) ==
    [outcome |-> outcome, calls |-> cs, opened |-> opened, closed |-> closed,
     commits |-> commit, applied |-> applied, rowcount |-> rowcount,
     rows |-> rows, batch |-> batch]

\* an exception raised by the handler's own checks, before any driver call
rejected(kind) == Result(kind, <<>>, 0, 0, 0, 0, -1, <<>>, <<>>)

\* variant of propagate with a finally-style cleanup: the cursor is closed
\* and the transaction committed although the driver call raised
propagate_commit(kind, cs, opened, applied, batch) ==
    Result(kind, cs \o <<"cursor.close", "commit">>, opened, opened, 1, applied, -1, <<>>, batch)

\* an exception of a driver call leaves the handler at once: the handlers
\* hold no try / finally, so nothing after the raising call runs
propagate(kind, cs, opened, applied, batch) ==
    Result(kind, cs, opened, 0, 0, applied, -1, <<>>, batch)

\* self._con.cursor(): needs the attribute and a live connection
cursor_error(c) ==
    IF c = "unset" THEN propagate("AttributeError", <<>>, 0, 0, <<>>)
    ELSE propagate("OperationalError", <<"cursor">>, 0, 0, <<>>)

----------------------------------------------------------------------------
(* DBContext.select *)

\* variant: an empty query string is rejected like None
select_check_falsy(query) ==
    IF query = None \/ query = "" THEN "ValueError" ELSE "ok"

\* if query is None: raise ValueError
select_check(query) ==
    IF query = None THEN "ValueError" ELSE "ok"

\* variant: select commits after closing its cursor
select_done_commit(d) ==
    Result("ok", <<"cursor", "execute", "fetchall", "cursor.close", "commit">>,
           1, 1, 1, 0, -1, d.rows, <<>>)

\* results = cursor.fetchall(); cursor.close(); return results
select_done(d) ==
    Result("ok", <<"cursor", "execute", "fetchall", "cursor.close">>,
           1, 1, 0, 0, -1, d.rows, <<>>)

\* The driver does not send an empty statement: execute("") either raises
\* or returns with the cursor never executed, and fetchall() on a cursor
\* that was never executed raises InterfaceError.
select(c, query, d) ==
    IF select_check(query) # "ok" THEN rejected(select_check(query))
    ELSE IF c # "open" THEN cursor_error(c)
    ELSE IF d.fail THEN propagate("DriverError", <<"cursor", "execute">>, 1, 0, <<>>)
    ELSE IF query = ""
         THEN propagate("InterfaceError", <<"cursor", "execute", "fetchall">>, 1, 0, <<>>)
    ELSE select_done(d)

----------------------------------------------------------------------------
(* DBContext.insert *)

\* variant: the type of values is checked before the query
insert_check_type_first(query, values) ==
    IF ~is_none(values) /\ ~isinstance_list(values) THEN "TypeError"
    ELSE IF query = None THEN "ValueError"
    ELSE "ok"

\* variant: any value is accepted as values
insert_check_no_type(query, values) ==
    IF query = None THEN "ValueError" ELSE "ok"

\* if query is None: raise ValueError
\* elif values is not None and not isinstance(values, list): raise TypeError
insert_check(query, values) ==
    IF query = None THEN "ValueError"
    ELSE IF ~is_none(values) /\ ~isinstance_list(values) THEN "TypeError"
    ELSE "ok"

\* variant: a list of rows is run through execute
insert_exec_single(values) ==
    IF is_none(values) THEN "execute"
    ELSE IF Len(values.items) > 0 THEN "execute"
    ELSE "none"

\* if values is None: cursor.execute(query)
\* elif len(values) > 0: cursor.executemany(query, values)
insert_exec(values) ==
    IF is_none(values) THEN "execute"
    ELSE IF Len(values.items) > 0 THEN "executemany"
    ELSE "none"

\* row_count = cursor.rowcount; cursor.fetchall(); cursor.close();
\* self._con.commit(); return row_count
\* `executed` tells whether the cursor executed a statement: fetchall() on
\* a cursor that never executed one raises InterfaceError, and a cursor
\* that never executed reports rowcount -1.
insert_done(cs, executed, rc, batch) ==
    IF ~executed
    THEN propagate("InterfaceError", cs \o <<"rowcount", "fetchall">>, 1, 0, batch)
    ELSE Result("ok", cs \o <<"rowcount", "fetchall", "cursor.close", "commit">>,
                1, 1, 1, rc, rc, <<>>, batch)

insert(c, query, values, d) ==
    IF insert_check(query, values) # "ok" THEN rejected(insert_check(query, values))
    ELSE IF c # "open" THEN cursor_error(c)
    ELSE LET step  == insert_exec(values)
             batch == IF step = "executemany" THEN values.items ELSE <<>>
             cs    == IF step = "none" THEN <<"cursor">> ELSE <<"cursor", step>>
         IN  IF step = "none" THEN insert_done(cs, FALSE, 0, batch)
             ELSE IF d.fail
                  THEN \* executemany may have applied some of the rows
                       propagate("DriverError", cs, 1,
                                 IF step = "executemany"
                                 THEN Min(d.rc, Len(values.items) - 1) ELSE 0,
                                 batch)
             ELSE IF query = "" THEN insert_done(cs, FALSE, 0, batch)
             ELSE insert_done(cs, TRUE, d.rc, batch)

----------------------------------------------------------------------------
(* DBContext.export_csv *)

\* variant: an empty list is not rejected
export_check_no_empty(records) ==
    IF is_none(records) THEN "ValueError"
    ELSE IF ~isinstance_list(records) THEN "TypeError"
    ELSE "ok"

\* if records is None or records == []: raise ValueError
\* elif not isinstance(records, list): raise TypeError
export_check(records) ==
    IF is_none(records) \/ eq_empty_list(records) THEN "ValueError"
    ELSE IF ~isinstance_list(records) THEN "TypeError"
    ELSE "ok"

\* f"{file_name}{'' if file_name.endswith('.csv') else '.csv'}"
csv_path(file_name) ==
    IF endswith(file_name, CsvSuffix) THEN file_name ELSE file_name \o CsvSuffix

----------------------------------------------------------------------------
(* State *)

\* the record of a handler call: its arguments, the connection it found,
\* the value is_connected returned, and its result
CallRecord(op, query, values, file, c, alive, res) ==
    [op |-> op, query |-> query, values |-> values, file |-> file,
     con |-> c, alive |-> alive, res |-> res]

NoCall == CallRecord("none", None, PyNone, <<>>, "unset", FALSE, rejected("none"))

Init ==
    /\ con = "unset"
    /\ pc = "out"
    /\ exc = FALSE
    /\ opens = 0
    /\ closes = 0
    /\ scopes = 0
    /\ calls = 0
    /\ cursorsOpen = 0
    /\ commits = 0
    /\ pending = 0
    /\ committed = 0
    /\ files = {}
    /\ last = NoCall

----------------------------------------------------------------------------
(* The with-statement: __enter__ and __exit__ *)

\* self._con = mysql.connector.connect(...); return self
\* connect raising leaves self._con as it was
enter(c, ok) == IF ok THEN "open" ELSE c

\* variant: the connection is closed only when the body ended normally
exit_unless_error(c, e) ==
    IF e THEN [con |-> c, closes |-> 0] ELSE [con |-> "closed", closes |-> 1]

\* self._con.close(), whatever exc_type / exc_val / exc_tb are
exit(c, e) == [con |-> "closed", closes |-> 1]

\* return self._con.is_connected()
is_connected(c) ==
    IF c = "unset" THEN propagate("AttributeError", <<>>, 0, 0, <<>>)
    ELSE Result("ok", <<"is_connected">>, 0, 0, 0, 0, -1, <<>>, <<>>)

\* `with DBContext(...) as db:` calls __enter__; the body runs only if it returns
Enter ==
    /\ pc = "out"
    /\ scopes + calls < MaxSteps
    /\ \E ok \in BOOLEAN :
         /\ con' = enter(con, ok)
         /\ opens' = IF ok THEN opens + 1 ELSE opens
         /\ pc' = IF ok THEN "body" ELSE "out"
         /\ exc' = IF ok THEN FALSE ELSE exc
         \* a new connection starts with an empty transaction
         /\ pending' = IF ok THEN 0 ELSE pending
    /\ scopes' = scopes + 1
    /\ UNCHANGED <<closes, calls, cursorsOpen, commits, committed, files, last>>

\* the with-statement calls __exit__ when the body ends, normally
\* (pc = "body") or by an exception (pc = "raised"); __exit__ returns None,
\* so the exception goes on to the caller
Exit ==
    /\ pc \in {"body", "raised"}
    /\ LET r == exit(con, pc = "raised")
       IN  /\ con' = r.con
           /\ closes' = closes + r.closes
           \* closing the connection rolls the open transaction back
           /\ pending' = IF r.con = "closed" THEN 0 ELSE pending
    /\ exc' = (pc = "raised")
    /\ pc' = "out"
    /\ UNCHANGED <<opens, scopes, calls, cursorsOpen, commits, committed, files, last>>

----------------------------------------------------------------------------
(* Handler calls *)

\* the effect of a handler call with result r on the connection, the
\* transaction and the with-statement around it; an exception the body
\* does not catch ends the body
Apply(rec, caught) ==
    LET r == rec.res
    IN  /\ pc \in {"out", "body"}
        /\ scopes + calls < MaxSteps
        /\ calls' = calls + 1
        /\ last' = rec
        /\ cursorsOpen' = cursorsOpen + r.opened - r.closed
        /\ commits' = commits + r.commits
        /\ committed' = IF r.commits = 1 THEN committed + pending + r.applied
                        ELSE committed
        /\ pending' = IF r.commits = 1 THEN 0 ELSE pending + r.applied
        /\ pc' = IF r.outcome # "ok" /\ pc = "body" /\ ~caught THEN "raised" ELSE pc
        /\ UNCHANGED <<con, exc, opens, closes, scopes>>

Select ==
    \E query \in Queries :
      \E d \in Answers(select_check(query) = "ok" /\ con = "open", SelectAnswers) :
        LET r == select(con, query, d)
        IN  \E caught \in Catches(r) :
              /\ Apply(CallRecord("select", query, PyNone, <<>>, con, FALSE, r), caught)
              /\ UNCHANGED files

Insert ==
    \E query \in Queries, values \in Objects :
      \E d \in Answers(insert_check(query, values) = "ok" /\ con = "open", InsertAnswers) :
        LET r == insert(con, query, values, d)
        IN  \E caught \in Catches(r) :
              /\ Apply(CallRecord("insert", query, values, <<>>, con, FALSE, r), caught)
              /\ UNCHANGED files

IsConnected ==
    LET r == is_connected(con)
    IN  \E caught \in Catches(r) :
          /\ Apply(CallRecord("is_connected", None, PyNone, <<>>, con, con = "open", r),
                   caught)
          /\ UNCHANGED files

\* pandas.DataFrame(records).to_csv(path, index=False, header=header)
\* creates the file at path, or replaces the one that is there
to_csv(fs, path) == fs \cup {path}

export_csv(records) ==
    IF export_check(records) # "ok" THEN rejected(export_check(records))
    ELSE Result("ok", <<"to_csv">>, 0, 0, 0, 0, -1, <<>>, <<>>)

ExportCsv ==
    \E records \in Objects, file_name \in FileNames :
        LET r == export_csv(records)
        IN  \E caught \in Catches(r) :
              /\ Apply(CallRecord("export_csv", None, records, file_name, con, FALSE, r),
                       caught)
              /\ files' = IF r.outcome = "ok"
                          THEN to_csv(files, csv_path(file_name))
                          ELSE files

Next == Enter \/ Exit \/ Select \/ Insert \/ IsConnected \/ ExportCsv

Spec == Init /\ [][Next]_vars

----------------------------------------------------------------------------
(* Properties *)

Count(seq, x) == Cardinality({i \in DOMAIN seq : seq[i] = x})
Has(seq, x) == Count(seq, x) > 0
\* every x in seq comes before every y in seq
Before(seq, x, y) ==
    \A i, j \in DOMAIN seq : seq[i] = x /\ seq[j] = y => i < j
\* the step just taken was a call of handler op
Called(op) == calls' = calls + 1 /\ last'.op = op
\* a call that reached no driver call and changed nothing
Untouched(res) ==
    /\ res.calls = <<>>
    /\ res.opened = 0
    /\ res.commits = 0
\* values was supplied and is not a list
NonListValues(v) == ~is_none(v) /\ ~isinstance_list(v)

\* C1: when a with-block has ended, normally or by an error in its body,
\* close has been called once for every successful open and the connection
\* is no longer connected; inside the block exactly one open is not yet
\* closed.  is_connected() reports the connection's state at call time.
C1_ScopedClose ==
    /\ pc = "out" => closes = opens /\ con # "open"
    /\ pc \in {"body", "raised"} => closes + 1 = opens /\ con = "open"
    /\ last.op = "is_connected" /\ last.res.outcome = "ok"
         => last.alive = (last.con = "open")

C1_Witness ==
    /\ pc = "out"
    /\ exc
    /\ opens = 1
    /\ closes = 1
    /\ con = "closed"

\* C2: select(None) and insert(None, values), for any values, raise
\* ValueError without a driver call: no cursor, no execute, no commit, and
\* the connection and the transaction are as before.
C2_NullQueryRejected ==
    [][(Called("select") \/ Called("insert")) /\ last'.query = None
         => /\ last'.res.outcome = "ValueError"
            /\ Untouched(last'.res)
            /\ UNCHANGED <<con, cursorsOpen, commits, pending, committed>>]_vars

C2_Witness ==
    /\ last.op = "insert"
    /\ last.query = None
    /\ NonListValues(last.values)
    /\ last.con = "open"
    /\ last.res.outcome = "ValueError"

\* C3 as stated: insert(q, v) with v supplied and not a list raises TypeError
\* for every q, a null q included, without a driver call.
C3_Original ==
    last.op = "insert" /\ NonListValues(last.values)
        => last.res.outcome = "TypeError" /\ Untouched(last.res)

\* C3 amended: insert(q, v) with a non-null q and v supplied and not a list
\* raises TypeError without a driver call; with a null q the query check
\* comes first and the call raises ValueError.
C3_TypeMismatch ==
    last.op = "insert" /\ NonListValues(last.values)
        => /\ Untouched(last.res)
           /\ last.res.outcome = IF last.query = None THEN "ValueError" ELSE "TypeError"

C3_Witness ==
    /\ last.op = "insert"
    /\ last.query = "SQL"
    /\ last.values.type = "tuple"
    /\ last.con = "open"
    /\ last.res.outcome = "TypeError"

\* C4: insert(q, []) with a statement q on a connected session executes no
\* statement, commits exactly once, returns the unexecuted cursor's
\* rowcount, changes no rows and does not raise.
C4_EmptyValuesCommit ==
    /\ last.op = "insert"
    /\ last.query \notin {None, ""}
    /\ eq_empty_list(last.values)
    /\ last.con = "open"
    => /\ last.res.outcome = "ok"
       /\ ~Has(last.res.calls, "execute")
       /\ ~Has(last.res.calls, "executemany")
       /\ last.res.commits = 1
       /\ last.res.rowcount = -1
       /\ last.res.applied = 0

\* C5: insert(q, values) with a non-empty list on a connected session calls
\* executemany exactly once, with all the rows, and never execute; when it
\* returns it has committed exactly once and returns the rowcount the
\* driver reported, read after the execution.
C5_BatchedInsert ==
    /\ last.op = "insert"
    /\ last.query # None
    /\ isinstance_list(last.values)
    /\ Len(last.values.items) > 0
    /\ last.con = "open"
    => /\ Count(last.res.calls, "executemany") = 1
       /\ ~Has(last.res.calls, "execute")
       /\ last.res.batch = last.values.items
       /\ last.res.outcome = "ok"
            => /\ Count(last.res.calls, "commit") = 1
               /\ last.res.commits = 1
               /\ Before(last.res.calls, "executemany", "rowcount")
               /\ last.res.rowcount = last.res.applied

C5_Witness ==
    /\ last.op = "insert"
    /\ Len(last.values.items) = 2
    /\ last.res.outcome = "ok"
    /\ last.res.rowcount = 1
    /\ commits = 1
    /\ committed = 1

\* C6: an insert whose execute or executemany raises issues no commit: the
\* driver's error leaves the call, nothing becomes durable, and the rows a
\* batch applied before failing stay in the open transaction.
C6_NoCommitAfterFailedExecute ==
    [][Called("insert") /\ last'.res.outcome = "DriverError"
         => /\ ~Has(last'.res.calls, "commit")
            /\ commits' = commits
            /\ committed' = committed
            /\ pending' = pending + last'.res.applied]_vars

C6_Witness ==
    /\ last.op = "insert"
    /\ last.res.outcome = "DriverError"
    /\ Has(last.res.calls, "executemany")
    /\ last.res.applied = 1
    /\ pending = 1
    /\ committed = 0

\* C7 as stated: select with an empty query string, like a null one, raises
\* ValueError before any driver call.
C7_Original ==
    last.op = "select" /\ last.query \in {None, ""} /\ last.con = "open"
        => last.res.outcome = "ValueError" /\ Untouched(last.res)

\* C7 amended: select requires only a non-null query.  A null query raises
\* ValueError before any driver call; an empty query string passes the
\* check, so on a connected session a cursor is opened and execute is
\* called with it, and the call does not raise ValueError.
C7_NullOnlyRejected ==
    /\ last.op = "select" /\ last.query = None
         => last.res.outcome = "ValueError" /\ Untouched(last.res)
    /\ last.op = "select" /\ last.query = "" /\ last.con = "open"
         => /\ last.res.outcome # "ValueError"
            /\ last.res.opened = 1
            /\ Len(last.res.calls) >= 2
            /\ SubSeq(last.res.calls, 1, 2) = <<"cursor", "execute">>

C7_Witness ==
    /\ last.op = "select"
    /\ last.query = ""
    /\ last.con = "open"
    /\ last.res.opened = 1
    /\ Has(last.res.calls, "execute")

\* C8: export_csv raises ValueError for None and for an empty list, and
\* TypeError for every value that is not a list; in both cases no file is
\* written.
C8_ExportRejects ==
    [][Called("export_csv")
         => /\ is_none(last'.values) \/ eq_empty_list(last'.values)
                 => last'.res.outcome = "ValueError"
            /\ NonListValues(last'.values) => last'.res.outcome = "TypeError"
            /\ last'.res.outcome # "ok"
                 => ~Has(last'.res.calls, "to_csv") /\ files' = files]_vars

C8_Witness ==
    /\ last.op = "export_csv"
    /\ eq_empty_list(last.values)
    /\ last.res.outcome = "ValueError"
    /\ files = {}

\* C9: every insert call on a connected session that passes validation and
\* whose execution step does not raise (values absent, non-empty or empty)
\* reads the rowcount, drains the cursor, closes it and then commits exactly
\* once, in that order, and leaves no cursor open.
C9_InsertStepOrder ==
    /\ last.op = "insert"
    /\ last.query = "SQL"
    /\ is_none(last.values) \/ isinstance_list(last.values)
    /\ last.con = "open"
    /\ last.res.outcome # "DriverError"
    => /\ Len(last.res.calls) >= 4
       /\ SubSeq(last.res.calls, Len(last.res.calls) - 3, Len(last.res.calls))
            = <<"rowcount", "fetchall", "cursor.close", "commit">>
       /\ Count(last.res.calls, "commit") = 1
       /\ last.res.opened = last.res.closed

\* C10: a select that returns has opened exactly one cursor, called execute
\* once, fetched the rows and closed the cursor, in that order; no select
\* commits, and a select that returns leaves no cursor open.
C10_SelectReadOnly ==
    [][Called("select")
         => /\ ~Has(last'.res.calls, "commit")
            /\ commits' = commits
            /\ committed' = committed
            /\ last'.res.outcome = "ok"
                 => /\ last'.res.calls = <<"cursor", "execute", "fetchall", "cursor.close">>
                    /\ cursorsOpen' = cursorsOpen]_vars

C10_Witness ==
    /\ last.op = "select"
    /\ last.res.outcome = "ok"
    /\ last.res.rows # <<>>
    /\ pending = 1
    /\ commits = 0
    /\ cursorsOpen = 1

====
